---------------------------- MODULE Spec2Model ----------------------------
(***************************************************************************)
(* Model of the deepfake-detection backend: the FastAPI handlers of        *)
(* backend/main.py, the store handle of backend/core/database.py, the      *)
(* face locator of backend/services/face_detector.py, the two extractors   *)
(* of backend/services/ai_detector.py and the analysis pipeline of         *)
(* backend/services/video_processor.py.                                    *)
(*                                                                         *)
(* Spec is the server as a whole.  SpecCalls takes one call of the locator *)
(* or of an extractor on its own, over its arguments and the module        *)
(* globals it reads.                                                       *)
(*                                                                         *)
(* Units.  Floating-point quantities are kept as exact integers:           *)
(*   ai_probability   in tenths             (0.5  is 5)                    *)
(*   fft_anomaly      in hundredths         (50.01 is 5001)                *)
(*   frame rate       in halves of a frame per second (0.5 fps is 1)       *)
(*   timestamp        in hundredths of a second                            *)
(*   confidence       as the numerator of a fraction over 1000 * count     *)
(*                    (count = 1, confidence 50.0 is 50000)                *)
(* Rounding error of the binary floating-point arithmetic is not modelled. *)
(*                                                                         *)
(* Scheduling.  Every coroutine runs on the one asyncio event loop of the  *)
(* server: a coroutine keeps the loop from the moment it is resumed to its *)
(* next await or its return.  The variable running names the pipeline      *)
(* that holds the loop.                                                    *)
(***************************************************************************)
EXTENDS Integers, Sequences, FiniteSets, TLC

\* ------------------------------------------------------------------ bounds
\* Largest number of decodable frames of an uploaded container.
MaxFrames == 3

\* Scan identifiers handed out by uuid.uuid4().hex: distinct by construction,
\* numbered here in the order of the uploads.
ScanIds == {1, 2}

\* Frame rates a container reports (halves of a frame per second):
\* missing or 0, 0.5 fps, 1 fps, 1.5 fps.
VideoFps == {0, 1, 2, 3}

\* Pairs of the value get_ai_prediction returns (tenths) and the value
\* get_fft_score returns (hundredths) for one crop: a fused score of exactly
\* 50, one of 50.004 (0.6 * 70 + 26.68 * 0.3), and one above the cap.
Scores == {<<5, 5000>>, <<6, 2668>>, <<10, 10000>>}

\* Values the simulated analysis draws: random.uniform(0.1, 0.95) and
\* random.uniform(10, 80).
MockScores == {<<1, 1000>>, <<9, 8000>>}

\* ------------------------------------------------------- program constants
\* fps = cap.get(cv2.CAP_PROP_FPS) or 30, in halves.
DefaultFps == 60
\* for i in range(5)
MockFrames == 5
\* confidence = min(final_score, 99.9), in thousandths.
ConfidenceCap == 99900
\* "DEEPFAKE" if confidence > 50, in thousandths.
Threshold == 50000

NONE == "none"
NoReport == [scan_id |-> 0]
NoCall == [fn |-> NONE]

VARIABLES
    \* environment, fixed when the modules are imported
    cv2Present,          \* import cv2 succeeded
    detectorInstalled,   \* import mediapipe succeeded
    mongoUri,            \* settings.MONGO_URI is set
    reachable,           \* the store answers the ping of Database.connect
    \* application
    started,             \* startup_event has run
    dbdb,                \* db.db: "None" or "conn"
    connPc,              \* position of an awaited Database.connect
    scans,               \* documents of the collection db.db.scans
    insertCalls,         \* scan ids insert_one was called for
    running,             \* scan id of the pipeline holding the event loop, or 0
    \* processed folder
    dirs,                \* scan ids whose working directory exists
    crops,               \* crops[j]: frame indexes with a face_<n>.jpg on disk
    \* process_video_pipeline(scan_id, video_path), one per scan id
    pc, fps, skip_rate, current_frame, analyzed_frames,
    fake_accumulated_score, fft_accumulated_score, count,
    final_verdict, confidence, report, log,
    \* one call of the face locator or of an extractor, taken on its own
    args,                \* the arguments and the module globals the call reads
    result               \* what the call returned, NoCall before it returns

envVars == <<cv2Present, detectorInstalled, mongoUri, reachable>>
appVars == <<started, dbdb, connPc, scans, insertCalls>>
diskVars == <<dirs, crops>>
loopVars == <<fps, skip_rate, current_frame>>
accVars == <<analyzed_frames, fake_accumulated_score, fft_accumulated_score, count>>
outVars == <<final_verdict, confidence, report>>
callVars == <<args, result>>
vars == <<envVars, callVars, appVars, running, diskVars, pc, loopVars, accVars,
          outVars, log>>

\* ----------------------------------------------------------------- helpers
RECURSIVE SumAi(_), SumFft(_)
SumAi(s) == IF s = <<>> THEN 0 ELSE Head(s).ai_probability + SumAi(Tail(s))
SumFft(s) == IF s = <<>> THEN 0 ELSE Head(s).fft_anomaly + SumFft(Tail(s))

\* round(n / d, 0) of Python: to the nearest integer, ties to the even one.
RoundDiv(n, d) ==
    LET q == n \div d
        r == n % d
    IN  IF 2 * r > d THEN q + 1
        ELSE IF 2 * r < d THEN q
        ELSE IF q % 2 = 0 THEN q ELSE q + 1

Min(a, b) == IF a < b THEN a ELSE b
Max(a, b) == IF a > b THEN a ELSE b

\* The server process after its modules are imported.
Boot ==
    /\ cv2Present \in BOOLEAN
    /\ detectorInstalled \in BOOLEAN
    /\ detectorInstalled => cv2Present    \* mediapipe depends on opencv
    /\ mongoUri \in BOOLEAN
    /\ reachable \in BOOLEAN
    /\ reachable => mongoUri              \* no URI, nothing to reach
    /\ started = FALSE
    /\ dbdb = "None"
    /\ connPc = "idle"
    /\ scans = {}
    /\ insertCalls = {}
    /\ running = 0
    /\ dirs = {}
    /\ crops = [j \in ScanIds |-> {}]
    /\ pc = [j \in ScanIds |-> "idle"]
    /\ fps = [j \in ScanIds |-> 0]
    /\ skip_rate = [j \in ScanIds |-> 0]
    /\ current_frame = [j \in ScanIds |-> 0]
    /\ analyzed_frames = [j \in ScanIds |-> <<>>]
    /\ fake_accumulated_score = [j \in ScanIds |-> 0]
    /\ fft_accumulated_score = [j \in ScanIds |-> 0]
    /\ count = [j \in ScanIds |-> 0]
    /\ final_verdict = [j \in ScanIds |-> NONE]
    /\ confidence = [j \in ScanIds |-> 0]
    /\ report = [j \in ScanIds |-> NoReport]
    /\ log = [j \in ScanIds |-> {}]

\* The server: no call is looked at on its own.
Init ==
    /\ Boot
    /\ args = NoCall
    /\ result = NoCall

\* ------------------------------------------------------------ application
\* startup_event calls db.connect() without awaiting it: the coroutine object
\* is created and dropped, its body never runs.
startup_event ==
    /\ ~started
    /\ connPc = "idle"
    /\ started' = TRUE
    /\ UNCHANGED <<envVars, callVars, dbdb, connPc, scans, insertCalls, running,
                   diskVars, pc, loopVars, accVars, outVars, log>>


\* Database.connect, awaited by the embedding program before the application
\* serves: up to the await of the ping, and from the answer of the ping to the
\* return.
connect_begin ==
    /\ connPc = "idle"
    /\ dbdb = "None"
    /\ ~started
    /\ IF ~mongoUri
          THEN UNCHANGED <<dbdb, connPc>>
          ELSE /\ dbdb' = "conn"
               /\ connPc' = "ping"
    /\ UNCHANGED <<envVars, callVars, started, scans, insertCalls, running,
                   diskVars, pc, loopVars, accVars, outVars, log>>

connect_end ==
    /\ connPc = "ping"
    /\ connPc' = "idle"
    /\ dbdb' = IF reachable THEN dbdb ELSE "None"
    /\ UNCHANGED <<envVars, callVars, started, scans, insertCalls, running,
                   diskVars, pc, loopVars, accVars, outVars, log>>

\* POST /api/analyze with an accepted extension and a file that could be
\* saved: the pipeline is added as a background task of the request.
analyze_video(j) ==
    /\ started
    /\ running = 0
    /\ pc[j] = "idle"
    /\ \A k \in ScanIds : k < j => pc[k] # "idle"
    /\ pc' = [pc EXCEPT ![j] = "queued"]
    /\ UNCHANGED <<envVars, callVars, appVars, running, diskVars, loopVars, accVars,
                   outVars, log>>

\* What GET /api/results/{scan_id} answers in the current state; raises says
\* whether find_one raises.  The Report documents carry no status field.
Processing(j) == [status |-> "PROCESSING", scan_id |-> j]

Found(j) == {r \in scans : r.scan_id = j}

GetResults(j, raises) ==
    IF dbdb # "None" /\ ~raises /\ Found(j) # {}
        THEN CHOOSE r \in Found(j) : TRUE
        ELSE Processing(j)

\* The handler reads the store and changes nothing; its answer is GetResults.
get_results(j) ==
    /\ started
    /\ running = 0
    /\ UNCHANGED vars

\* DELETE /api/scans/{scan_id}: the status code answered and the collection
\* left behind; raises says whether delete_one raises.  The HTTPException(404)
\* of line 146 is raised inside the try and HTTPException is an Exception, so
\* the except clause of line 147 catches it like any error of the driver.
DeleteScan(j, raises) ==
    IF dbdb = "None"
        THEN [code |-> 503, status |-> "unavailable", scans |-> scans]
    ELSE LET deleted == IF raises \/ Found(j) = {}
                           THEN {}
                           ELSE {CHOOSE r \in Found(j) : TRUE}
             deleted_count == Cardinality(deleted)
             raisedInTry == IF raises THEN "driver error"
                            ELSE IF deleted_count = 1 THEN NONE
                            ELSE "HTTPException(404)"
         IN  IF raisedInTry = NONE
                THEN [code |-> 200, status |-> "deleted", scans |-> scans \ deleted]
                ELSE [code |-> 500, status |-> "failed", scans |-> scans \ deleted]

delete_scan(j) ==
    /\ started
    /\ running = 0
    /\ \E raises \in BOOLEAN : scans' = DeleteScan(j, raises).scans
    /\ UNCHANGED <<envVars, callVars, started, dbdb, connPc, insertCalls, running,
                   diskVars, pc, loopVars, accVars, outVars, log>>

\* -------------------------------------------------------------- face locator
\* face_cascade is bound only in the except-ImportError branch of the
\* mediapipe import.
FaceCascade ==
    IF detectorInstalled THEN "unbound"
    ELSE IF cv2Present THEN "classifier" ELSE "None"

DetectorOutcomes == {"detection", "nothing", "raise"}

\* crop_face_advanced(frame): det is what detector.process does on the frame,
\* cas what face_cascade.detectMultiScale does.
crop_face_advanced(det, cas) ==
    IF ~cv2Present
        THEN [raised |-> FALSE, found |-> FALSE, strategy |-> NONE]
    ELSE IF detectorInstalled /\ det = "detection"
        THEN [raised |-> FALSE, found |-> TRUE, strategy |-> "mediapipe"]
    ELSE IF FaceCascade = "unbound"
        THEN [raised |-> TRUE, found |-> FALSE, strategy |-> "NameError"]
    ELSE IF FaceCascade = "classifier" /\ cas = "detection"
        THEN [raised |-> FALSE, found |-> TRUE, strategy |-> "haar"]
    ELSE [raised |-> FALSE, found |-> TRUE, strategy |-> "center"]

\* int(w * 0.2) for a pixel count w >= 0.
Pad(w) == (w * 2) \div 10

\* frame[lo:hi] along an axis of n pixels: the half-open interval a Python
\* slice keeps (a negative bound counts from the end, bounds are clipped).
Slice(lo, hi, n) ==
    LET a == IF lo < 0 THEN Max(0, n + lo) ELSE Min(lo, n)
        b == IF hi < 0 THEN Max(0, n + hi) ELSE Min(hi, n)
    IN  <<a, Max(a, b)>>

\* The pixels frame[y1:y2, x1:x2] of a frame of width x height pixels.
Crop(x1, y1, x2, y2, width, height) ==
    LET xs == Slice(x1, x2, width)
        ys == Slice(y1, y2, height)
    IN  [x1 |-> xs[1], x2 |-> xs[2], y1 |-> ys[1], y2 |-> ys[2]]

NoImage == [img |-> NONE]
NoBox == [x |-> 0, y |-> 0, w |-> 0, h |-> 0]

\* Lines 41-54: the first detection's box in pixels, padded by 20% of its
\* width and of its height.
MediapipeCrop(width, height, b) ==
    LET x_pad == Pad(b.w)
        y_pad == Pad(b.h)
    IN  Crop(Max(0, b.x - x_pad), Max(0, b.y - y_pad),
             Min(width, b.x + b.w + x_pad), Min(height, b.y + b.h + y_pad),
             width, height)

\* Lines 63-69: the first rectangle of detectMultiScale, padded on both axes
\* by pad = int(w * 0.2).
HaarCrop(width, height, b) ==
    LET pad == Pad(b.w)
    IN  Crop(Max(0, b.x - pad), Max(0, b.y - pad),
             Min(width, b.x + b.w + pad), Min(height, b.y + b.h + pad),
             width, height)

\* Lines 73-79: the central half of the frame on each axis.
CenterCrop(width, height) ==
    LET h_center == height \div 2
        w_center == width \div 2
        h_size == height \div 2
        w_size == width \div 2
        y1 == Max(0, h_center - h_size \div 2)
        x1 == Max(0, w_center - w_size \div 2)
    IN  Crop(x1, y1, x1 + w_size, y1 + h_size, width, height)

\* The image a call of crop_face_advanced returns on the path it takes.
FaceImg(strategy, a) ==
    CASE strategy = "mediapipe" -> MediapipeCrop(a.width, a.height, a.bbox)
      [] strategy = "haar" -> HaarCrop(a.width, a.height, a.face)
      [] strategy = "center" -> CenterCrop(a.width, a.height)
      [] OTHER -> NoImage

\* ---------------------------------------------------------------- extractors
\* Top labels of the two classifiers (API_MODEL_NAME, LOCAL_MODEL_NAME) as
\* they arrive, and label.lower().
Labels == {"Fake", "Real", "Deepfake", "Realism"}
Lower(label) ==
    CASE label = "Fake" -> "fake"
      [] label = "Real" -> "real"
      [] label = "Deepfake" -> "deepfake"
      [] label = "Realism" -> "realism"

\* "fake" in label or "deepfake" in label, on a lowercased label.
ContainsFake(label) == label \in {"fake", "deepfake"}

\* Top scores of a classifier, in tenths.
TopScores == {0, 1, 9, 10}

\* A classifier's answer; NoAnswer when Image.open or the classifier raises.
NoAnswer == [label |-> NONE, score |-> 0]
Answers == [label : Labels, score : TopScores] \cup {NoAnswer}

\* random.uniform(0.1, 0.9), in tenths.
RandomProbabilities == {1, 5, 9}

\* Lines 70-73 and 86-89 with the top label taken as is.
FakeProbabilityUnflipped(label, score) == score

\* Lines 63-73 and 83-89: the top answer as a probability of fake.
FakeProbability(label, score) ==
    IF ContainsFake(Lower(label)) THEN score ELSE 10 - score

\* get_ai_prediction(image_path): the values the call can return.  a.libs
\* says the imports of the module succeeded (Image is set), a.client and
\* a.ai_pipe that the two classifiers are set, a.answer what the classifier
\* asked does.
get_ai_prediction(a) ==
    IF ~a.client /\ ~a.ai_pipe
        THEN RandomProbabilities
    ELSE IF a.client /\ a.libs /\ a.answer # NoAnswer
        THEN {FakeProbability(a.answer.label, a.answer.score)}
    ELSE IF a.ai_pipe /\ a.libs
        THEN IF a.answer = NoAnswer
                THEN {5}
                ELSE {FakeProbability(a.answer.label, a.answer.score)}
    ELSE RandomProbabilities

\* Half-side of the square get_fft_score zeroes at the centre of the spectrum,
\* and of the one math_detector.analyze_fft_frequency zeroes (mask_size).
NarrowMask == 10
WideMask == 30

\* A log-magnitude spectrum 20 * log(|F| + 1e-10) of a side x side crop, flat
\* on three bands around the centre: within NarrowMask of it, within WideMask
\* of it, and beyond.  Magnitudes in hundredths.
CropSides == {100}
Magnitudes == {7500, 12500, 20000}
Spectra == [inner : Magnitudes, middle : Magnitudes, outer : Magnitudes]

\* magnitude[crow-k:crow+k, ccol-k:ccol+k] = 0, then np.mean(magnitude).
MaskedMean(sp, side, k) ==
    LET innerCells == (2 * NarrowMask) * (2 * NarrowMask)
        middleCells == (2 * WideMask) * (2 * WideMask) - innerCells
        outerCells == side * side - innerCells - middleCells
        total == (IF k >= NarrowMask THEN 0 ELSE sp.inner * innerCells)
                 + (IF k >= WideMask THEN 0 ELSE sp.middle * middleCells)
                 + sp.outer * outerCells
    IN  total \div (side * side)

\* min(max((score - 100) * 2, 0), 100), in hundredths.
Normalized(score) == Min(Max((score - 10000) * 2, 0), 10000)

\* random.uniform(20, 80), in hundredths.
RandomAnomalies == {2000, 5000, 8000}

\* get_fft_score(image_path): the values the call can return.  a.libs says
\* the imports of ai_detector succeeded (cv2 and np are set), a.decodable
\* that cv2.imread returns an image, a.fails that the analysis raises.
get_fft_score(a) ==
    IF ~a.libs THEN RandomAnomalies
    ELSE IF ~a.decodable THEN {0}
    ELSE IF a.fails THEN {0}
    ELSE {Normalized(MaskedMean(a.spectrum, a.side, NarrowMask))}


\* ------------------------------------------------------------------ pipeline
\* The locals of a call are gone once it has returned.
DropLocals(j) ==
    /\ fps' = [fps EXCEPT ![j] = 0]
    /\ skip_rate' = [skip_rate EXCEPT ![j] = 0]
    /\ current_frame' = [current_frame EXCEPT ![j] = 0]
    /\ analyzed_frames' = [analyzed_frames EXCEPT ![j] = <<>>]
    /\ fake_accumulated_score' = [fake_accumulated_score EXCEPT ![j] = 0]
    /\ fft_accumulated_score' = [fft_accumulated_score EXCEPT ![j] = 0]
    /\ count' = [count EXCEPT ![j] = 0]
    /\ final_verdict' = [final_verdict EXCEPT ![j] = NONE]
    /\ confidence' = [confidence EXCEPT ![j] = 0]
    /\ report' = [report EXCEPT ![j] = NoReport]

\* except Exception as e: logger.error("Error in video processing loop")
LoopError(j) ==
    /\ log' = [log EXCEPT ![j] = @ \cup {"loop_error"}]
    /\ pc' = [pc EXCEPT ![j] = "verdict"]

\* Lines 23-35: the background task starts, makes its working directory and
\* chooses the mode.
Start(j) ==
    /\ pc[j] = "queued"
    /\ running = 0
    /\ running' = j
    /\ dirs' = dirs \cup {j}
    /\ pc' = [pc EXCEPT ![j] = IF cv2Present THEN "open" ELSE "sleep"]
    /\ UNCHANGED <<envVars, callVars, appVars, crops, loopVars, accVars, outVars, log>>

\* Lines 36-37: time.sleep(3), a blocking wait on the event loop's thread.
Simulate(j) ==
    /\ pc[j] = "sleep"
    /\ pc' = [pc EXCEPT ![j] = "mock"]
    /\ UNCHANGED <<envVars, callVars, appVars, running, diskVars, loopVars, accVars,
                   outVars, log>>

\* Lines 40-50: one round of for i in range(5); i is count.
MockFrame(j) ==
    /\ pc[j] = "mock"
    /\ IF count[j] < MockFrames
          THEN \E sc \in MockScores :
                /\ analyzed_frames' = [analyzed_frames EXCEPT ![j] =
                      Append(@, [timestamp |-> count[j] * 100,
                                 ai_probability |-> sc[1],
                                 fft_anomaly |-> sc[2]])]
                /\ fake_accumulated_score' =
                      [fake_accumulated_score EXCEPT ![j] = @ + sc[1]]
                /\ fft_accumulated_score' =
                      [fft_accumulated_score EXCEPT ![j] = @ + sc[2]]
                /\ count' = [count EXCEPT ![j] = @ + 1]
                /\ UNCHANGED pc
          ELSE /\ pc' = [pc EXCEPT ![j] = "verdict"]
               /\ UNCHANGED accVars
    /\ UNCHANGED <<envVars, callVars, appVars, running, diskVars, loopVars, outVars, log>>

\* int(fps) * 2, fps in halves.
SkipRate(f) == (f \div 2) * 2

\* Lines 55-62: cap = cv2.VideoCapture(video_path) opens a container that
\* reports the rate f, or cannot open the file: the call then returns at once.
Open(j) ==
    /\ pc[j] = "open"
    /\ \E o \in BOOLEAN, f \in VideoFps :
          IF ~o
             THEN /\ log' = [log EXCEPT ![j] = @ \cup {"could_not_open"}]
                  /\ pc' = [pc EXCEPT ![j] = "done"]
                  /\ running' = 0
                  /\ UNCHANGED <<loopVars>>
             ELSE LET r == IF f # 0 THEN f ELSE DefaultFps
                  IN  /\ fps' = [fps EXCEPT ![j] = r]
                      /\ skip_rate' = [skip_rate EXCEPT ![j] = SkipRate(r)]
                      /\ current_frame' = [current_frame EXCEPT ![j] = 0]
                      /\ pc' = [pc EXCEPT ![j] = "read"]
                      /\ UNCHANGED <<running, log>>
    /\ UNCHANGED <<envVars, callVars, appVars, diskVars, accVars, outVars>>

\* Lines 64-66 and 93: ret, frame = cap.read() decodes one more frame, or
\* finds the container exhausted and the loop is left.
Read(j) ==
    /\ pc[j] = "read"
    /\ \E ret \in BOOLEAN :
          /\ ret => current_frame[j] < MaxFrames
          /\ pc' = [pc EXCEPT ![j] = IF ret THEN "sample" ELSE "verdict"]
    /\ UNCHANGED <<envVars, callVars, appVars, running, diskVars, loopVars, accVars,
                   outVars, log>>

\* Lines 68 and 91: current_frame % skip_rate == 0; a zero skip_rate raises
\* ZeroDivisionError.
Sample(j) ==
    /\ pc[j] = "sample"
    /\ IF skip_rate[j] = 0
          THEN /\ LoopError(j)
               /\ UNCHANGED current_frame
          ELSE IF current_frame[j] % skip_rate[j] = 0
          THEN /\ pc' = [pc EXCEPT ![j] = "locate"]
               /\ UNCHANGED <<current_frame, log>>
          ELSE /\ current_frame' = [current_frame EXCEPT ![j] = @ + 1]
               /\ pc' = [pc EXCEPT ![j] = "read"]
               /\ UNCHANGED log
    /\ UNCHANGED <<envVars, callVars, appVars, running, diskVars, fps, skip_rate,
                   accVars, outVars>>

\* Lines 70-72 and 91: face_img, found = crop_face_advanced(frame).
Locate(j) ==
    /\ pc[j] = "locate"
    /\ \E det \in DetectorOutcomes, cas \in DetectorOutcomes :
          LET res == crop_face_advanced(det, cas)
          IN  IF res.raised
                 THEN /\ LoopError(j)
                      /\ UNCHANGED current_frame
              ELSE IF res.found
                 THEN /\ pc' = [pc EXCEPT ![j] = "write"]
                      /\ UNCHANGED <<current_frame, log>>
                 ELSE /\ current_frame' = [current_frame EXCEPT ![j] = @ + 1]
                      /\ pc' = [pc EXCEPT ![j] = "read"]
                      /\ UNCHANGED log
    /\ UNCHANGED <<envVars, callVars, appVars, running, diskVars, fps, skip_rate,
                   accVars, outVars>>

\* Lines 73-75: cv2.imwrite(face_path, face_img) writes the crop, or returns
\* False without writing, or raises (an empty crop).
ImwriteOutcomes == {"written", "not_written", "raise"}

Write(j) ==
    /\ pc[j] = "write"
    /\ \E out \in ImwriteOutcomes :
          IF out = "raise"
             THEN /\ LoopError(j)
                  /\ UNCHANGED crops
             ELSE /\ crops' = [crops EXCEPT ![j] =
                        IF out = "written" THEN @ \cup {current_frame[j]} ELSE @]
                  /\ pc' = [pc EXCEPT ![j] = "score"]
                  /\ UNCHANGED log
    /\ UNCHANGED <<envVars, callVars, appVars, running, dirs, loopVars, accVars, outVars>>

\* The duration of one frame, round(1 / fps, 2), in place of the position.
TimestampFrameDuration(cf, f) == RoundDiv(200, f)

\* round(current_frame / fps, 2), in hundredths of a second.
Timestamp(cf, f) == RoundDiv(cf * 200, f)

\* Score with the frame loop left between the append and count += 1.
ScoreRaisesAfterAppend(j) ==
    /\ pc[j] = "score"
    /\ \E sc \in Scores :
          analyzed_frames' = [analyzed_frames EXCEPT ![j] =
                Append(@, [timestamp |-> Timestamp(current_frame[j], fps[j]),
                           ai_probability |-> sc[1],
                           fft_anomaly |-> sc[2]])]
    /\ LoopError(j)
    /\ UNCHANGED <<envVars, callVars, appVars, running, diskVars, loopVars,
                   fake_accumulated_score, fft_accumulated_score, count, outVars>>

\* Lines 78-91: both extractors, the FrameResult, the accumulators.
Score(j) ==
    /\ pc[j] = "score"
    /\ \E sc \in Scores :
        LET ai_conf == sc[1]
            fft_val == sc[2]
        IN
          /\ analyzed_frames' = [analyzed_frames EXCEPT ![j] =
                Append(@, [timestamp |-> Timestamp(current_frame[j], fps[j]),
                           ai_probability |-> ai_conf,
                           fft_anomaly |-> fft_val])]
          /\ fake_accumulated_score' = [fake_accumulated_score EXCEPT ![j] = @ + ai_conf]
          /\ fft_accumulated_score' = [fft_accumulated_score EXCEPT ![j] = @ + fft_val]
    /\ count' = [count EXCEPT ![j] = @ + 1]
    /\ current_frame' = [current_frame EXCEPT ![j] = @ + 1]
    /\ pc' = [pc EXCEPT ![j] = "read"]
    /\ UNCHANGED <<envVars, callVars, appVars, running, diskVars, fps, skip_rate,
                   outVars, log>>


\* Line 106: final_score = avg_ai * 100 * 0.7 + avg_fft * 0.01 * 100 * 0.3, as
\* a numerator over 1000 * count (avg_ai = fake / (10 * count), avg_fft =
\* fft / (100 * count)).
FinalScore(fake, fft) == 7000 * fake + 3 * fft

\* Confidence without the cap.
ConfidenceUncapped(fake, fft, cnt) == FinalScore(fake, fft)

\* Line 107: confidence = min(final_score, 99.9), over 1000 * cnt.
Confidence(fake, fft, cnt) == Min(FinalScore(fake, fft), ConfidenceCap * cnt)

\* VerdictOf with an inclusive threshold.
VerdictOfInclusive(conf, cnt) == IF conf >= Threshold * cnt THEN "DEEPFAKE" ELSE "REAL"

\* Line 108: "DEEPFAKE" if confidence > 50 else "REAL", conf over 1000 * cnt.
VerdictOf(conf, cnt) == IF conf > Threshold * cnt THEN "DEEPFAKE" ELSE "REAL"

\* FinalVerdict with the averages taken over max(count, 1) instead of the
\* count == 0 branch.
FinalVerdictNoZeroBranch(fake, fft, cnt) ==
    [verdict |-> VerdictOf(Confidence(fake, fft, Max(cnt, 1)), Max(cnt, 1)),
     confidence |-> Confidence(fake, fft, Max(cnt, 1))]

\* Lines 98-108: the verdict and the confidence for the accumulators.
FinalVerdict(fake, fft, cnt) ==
    IF cnt = 0
        THEN [verdict |-> "UNCERTAIN", confidence |-> 0]
        ELSE [verdict |-> VerdictOf(Confidence(fake, fft, cnt), cnt),
              confidence |-> Confidence(fake, fft, cnt)]

\* round(confidence, 2), in hundredths.
ConfidenceScore(conf, cnt) == IF cnt = 0 THEN 0 ELSE RoundDiv(conf, 10 * cnt)

\* Lines 111-118 (created_at, the wall clock, is left out).
MakeReport(j, verdict, conf, cnt, frames) ==
    [scan_id |-> j,
     verdict |-> verdict,
     confidence_score |-> ConfidenceScore(conf, cnt),
     total_frames_analyzed |-> cnt,
     frame_data |-> frames]

\* Lines 97-118.
Verdict(j) ==
    /\ pc[j] = "verdict"
    /\ LET v == FinalVerdict(fake_accumulated_score[j], fft_accumulated_score[j],
                             count[j])
       IN  /\ final_verdict' = [final_verdict EXCEPT ![j] = v.verdict]
           /\ confidence' = [confidence EXCEPT ![j] = v.confidence]
           /\ report' = [report EXCEPT ![j] =
                 MakeReport(j, v.verdict, v.confidence, count[j], analyzed_frames[j])]
    /\ pc' = [pc EXCEPT ![j] = "save"]
    /\ UNCHANGED <<envVars, callVars, appVars, running, diskVars, loopVars, accVars, log>>

\* Lines 121-126: with a store handle, call insert_one and await it (the
\* loop is handed back); without, warn and go on.
Save(j) ==
    /\ pc[j] = "save"
    /\ IF dbdb # "None"
          THEN /\ insertCalls' = insertCalls \cup {j}
               /\ pc' = [pc EXCEPT ![j] = "insert"]
               /\ running' = 0
               /\ UNCHANGED log
          ELSE /\ log' = [log EXCEPT ![j] = @ \cup {"not_saved"}]
               /\ pc' = [pc EXCEPT ![j] = "cleanup"]
               /\ UNCHANGED <<insertCalls, running>>
    /\ UNCHANGED <<envVars, callVars, started, dbdb, connPc, scans, diskVars,
                   loopVars, accVars, outVars>>

\* Lines 123-128: the insert is answered, the coroutine resumed: the document
\* is in the collection, or the call raised.
InsertDone(j) ==
    /\ pc[j] = "insert"
    /\ running = 0
    /\ running' = j
    /\ \E ok \in BOOLEAN :
          IF ok
             THEN /\ scans' = scans \cup {report[j]}
                  /\ log' = [log EXCEPT ![j] = @ \cup {"saved"}]
             ELSE /\ log' = [log EXCEPT ![j] = @ \cup {"save_failed"}]
                  /\ UNCHANGED scans
    /\ pc' = [pc EXCEPT ![j] = "cleanup"]
    /\ UNCHANGED <<envVars, callVars, started, dbdb, connPc, insertCalls, diskVars,
                   loopVars, accVars, outVars>>

\* Cleanup with shutil.rmtree applied to settings.PROCESSED_FOLDER itself.
CleanupWholeFolder(j) ==
    /\ pc[j] = "cleanup"
    /\ dirs' = {}
    /\ crops' = [k \in ScanIds |-> {}]
    /\ log' = [log EXCEPT ![j] = @ \cup {"cleanup_ok"}]
    /\ pc' = [pc EXCEPT ![j] = "final"]
    /\ UNCHANGED <<envVars, callVars, appVars, running, loopVars, accVars, outVars>>

\* Lines 131-143: shutil.rmtree of the working directory; a failure is logged
\* and leaves the tree.
Cleanup(j) ==
    /\ pc[j] = "cleanup"
    /\ IF j \in dirs
          THEN \E ok \in BOOLEAN :
                IF ok
                   THEN /\ dirs' = dirs \ {j}
                        /\ crops' = [crops EXCEPT ![j] = {}]
                        /\ log' = [log EXCEPT ![j] = @ \cup {"cleanup_ok"}]
                   ELSE /\ log' = [log EXCEPT ![j] = @ \cup {"cleanup_failed"}]
                        /\ UNCHANGED diskVars
          ELSE /\ log' = [log EXCEPT ![j] = @ \cup {"cleanup_ok"}]
               /\ UNCHANGED diskVars
    /\ pc' = [pc EXCEPT ![j] = "final"]
    /\ UNCHANGED <<envVars, callVars, appVars, running, loopVars, accVars, outVars>>

\* Line 145: logger.success("Analysis Complete. Verdict: ..."), and return.
Finish(j) ==
    /\ pc[j] = "final"
    /\ log' = [log EXCEPT ![j] = @ \cup {"complete"}]
    /\ pc' = [pc EXCEPT ![j] = "done"]
    /\ running' = 0
    /\ DropLocals(j)
    /\ UNCHANGED <<envVars, callVars, appVars, diskVars>>

Pipeline(j) ==
    \/ Start(j) \/ Simulate(j) \/ MockFrame(j)
    \/ Open(j) \/ Read(j) \/ Sample(j) \/ Locate(j) \/ Write(j) \/ Score(j)
    \/ Verdict(j) \/ Save(j) \/ InsertDone(j) \/ Cleanup(j) \/ Finish(j)

Next ==
    \/ startup_event
    \/ connect_begin
    \/ connect_end
    \/ \E j \in ScanIds : analyze_video(j)
    \/ \E j \in ScanIds : get_results(j)
    \/ \E j \in ScanIds : delete_scan(j)
    \/ \E j \in ScanIds : Pipeline(j)

Spec == Init /\ [][Next]_vars


\* ------------------------------------------------- calls taken on their own
\* One call of crop_face_advanced, get_ai_prediction or get_fft_score: args
\* holds its arguments and the module globals it reads, result what it
\* returned.

\* Frames (pixels) and the boxes the detectors report on them.  A box of the
\* mediapipe detector may leave the frame; a rectangle of the cascade is a
\* square inside it.
FrameWidths == {10, 16}
FrameHeights == {10, 12}
Boxes == [x : {-1, 0, 4}, y : {0, 5}, w : {5, 10}, h : {5, 10}]
Faces == {b \in [x : {0, 4}, y : {0, 5}, w : {5, 10}, h : {5, 10}] : b.w = b.h}

CropArgs ==
    {a \in [fn : {"crop_face_advanced"},
            width : FrameWidths, height : FrameHeights,
            det : DetectorOutcomes, bbox : Boxes \cup {NoBox},
            cas : DetectorOutcomes, face : Faces \cup {NoBox}] :
        /\ (a.det = "detection") <=> (a.bbox # NoBox)
        /\ (a.cas = "detection") <=> (a.face # NoBox)
        /\ a.face.x + a.face.w <= a.width
        /\ a.face.y + a.face.h <= a.height}

\* client is set only with the imports, ai_pipe only with them and no client.
AiArgs ==
    {a \in [fn : {"get_ai_prediction"}, libs : BOOLEAN, client : BOOLEAN,
            ai_pipe : BOOLEAN, answer : Answers] :
        /\ a.client => a.libs
        /\ a.ai_pipe => (a.libs /\ ~a.client)}

FftArgs ==
    [fn : {"get_fft_score"}, libs : BOOLEAN, decodable : BOOLEAN,
     fails : BOOLEAN, spectrum : Spectra, side : CropSides]

CallArgs == CropArgs \cup AiArgs \cup FftArgs

InitCalls ==
    /\ Boot
    /\ args \in CallArgs
    /\ "libs" \in DOMAIN args => (args.libs => cv2Present)
    /\ result = NoCall

\* What crop_face_advanced hands back to its caller: the pair
\* (face_img, found), or an exception.
CropResult(a) ==
    LET res == crop_face_advanced(a.det, a.cas)
    IN  [fn |-> a.fn,
         raised |-> res.raised,
         face_img |-> FaceImg(res.strategy, a),
         found |-> res.found]

\* face_img, found = crop_face_advanced(frame)
call_crop_face_advanced ==
    /\ args.fn = "crop_face_advanced"
    /\ result = NoCall
    /\ result' = CropResult(args)
    /\ UNCHANGED <<envVars, args, appVars, running, diskVars, pc, loopVars,
                   accVars, outVars, log>>

\* ai_conf = get_ai_prediction(str(face_path))
call_get_ai_prediction ==
    /\ args.fn = "get_ai_prediction"
    /\ result = NoCall
    /\ \E v \in get_ai_prediction(args) :
          result' = [fn |-> args.fn, raised |-> FALSE, value |-> v]
    /\ UNCHANGED <<envVars, args, appVars, running, diskVars, pc, loopVars,
                   accVars, outVars, log>>

\* fft_val = get_fft_score(str(face_path))
call_get_fft_score ==
    /\ args.fn = "get_fft_score"
    /\ result = NoCall
    /\ \E v \in get_fft_score(args) :
          result' = [fn |-> args.fn, raised |-> FALSE, value |-> v]
    /\ UNCHANGED <<envVars, args, appVars, running, diskVars, pc, loopVars,
                   accVars, outVars, log>>

NextCalls ==
    \/ call_crop_face_advanced
    \/ call_get_ai_prediction
    \/ call_get_fft_score

SpecCalls == InitCalls /\ [][NextCalls]_vars


\* ==================================================================== claims
\* The Report a call holds between lines 111 and 145.
HasReport(j) == report[j] # NoReport

\* The Reports that exist: held by a running call, or in the collection.
Reports == {report[j] : j \in {k \in ScanIds : HasReport(k)}} \cup scans

\* The lifecycle status a caller of get_results sees for a scan.
ObservedStatus(j) ==
    LET body == GetResults(j, FALSE)
    IN  IF "status" \in DOMAIN body THEN body.status ELSE "absent"

Returned(j) == pc[j] = "done"
CouldNotOpen(j) == "could_not_open" \in log[j]

\* C1: once the pipeline has returned for a video whose container could not
\* be opened, callers see the status FAILED for that scan and insert_one was
\* never called for it.
C1_UnopenableIsFailed ==
    \A j \in ScanIds :
        (Returned(j) /\ CouldNotOpen(j)) =>
            (ObservedStatus(j) = "FAILED" /\ j \notin insertCalls)

\* C2: once the pipeline has returned, on any exit path on which the removal
\* of the tree did not itself fail, neither the working directory of the scan
\* nor a crop in it is left on disk.
C2_NothingLeftOnDisk ==
    \A j \in ScanIds :
        (Returned(j) /\ "cleanup_failed" \notin log[j]) =>
            (j \notin dirs /\ crops[j] = {})

\* C3: the pipeline announces completion only for a scan whose Report is in
\* the collection, and a scan whose Report could not be stored is seen as
\* FAILED by callers once the pipeline has returned.
C3_CompletedOnlyIfStored ==
    \A j \in ScanIds :
        /\ "complete" \in log[j] => Found(j) # {}
        /\ (Returned(j) /\ log[j] \cap {"not_saved", "save_failed"} # {}) =>
               ObservedStatus(j) = "FAILED"

\* C4: with the store configured and reachable when the application started,
\* the pipeline of a scan whose video could be opened has not returned without
\* get_results answering with the Report of that scan.  (Nothing but the
\* pipeline of a scan inserts its Report, so an answer that is still
\* PROCESSING when the pipeline has returned stays PROCESSING for ever.)
C4_ReportOnceReturned ==
    \A j \in ScanIds :
        (started /\ mongoUri /\ reachable /\ Returned(j) /\ ~CouldNotOpen(j)) =>
            GetResults(j, FALSE) \in Found(j)

\* C5: in every Report, zero analyzed frames means verdict UNCERTAIN with
\* confidence 0, and a verdict REAL or DEEPFAKE means at least one analyzed
\* frame; also when the frame loop was left by an exception.
C5_NoFramesIsUncertain ==
    /\ \A r \in Reports :
          /\ r.total_frames_analyzed = 0 =>
                (r.verdict = "UNCERTAIN" /\ r.confidence_score = 0)
          /\ r.verdict \in {"REAL", "DEEPFAKE"} => r.total_frames_analyzed >= 1
    /\ \A j \in ScanIds :
          (HasReport(j) /\ count[j] = 0) =>
              (final_verdict[j] = "UNCERTAIN" /\ confidence[j] = 0)

C5_Witness ==
    \E j \in ScanIds :
        /\ HasReport(j)
        /\ "loop_error" \in log[j]
        /\ report[j].total_frames_analyzed = 0
        /\ report[j].verdict = "UNCERTAIN"

\* C6: in every Report, total_frames_analyzed is the length of frame_data,
\* wherever the frame loop stopped.
C6_CountIsLength ==
    \A r \in Reports : r.total_frames_analyzed = Len(r.frame_data)

C6_Witness ==
    \E j \in ScanIds :
        /\ HasReport(j)
        /\ "loop_error" \in log[j]
        /\ Len(report[j].frame_data) >= 1
        /\ report[j].total_frames_analyzed = Len(report[j].frame_data)

\* clamp(avg_ai * 100 * 0.7 + avg_fft * 0.3, 0, 99.9) for the sums sa (tenths)
\* and sf (hundredths) over n FrameResults, as a numerator over 1000 * n.
ClampedFusion(sa, sf, n) ==
    Max(0, Min(70 * 100 * sa + 3 * sf, 999 * 100 * n))

\* C7: with at least one FrameResult, the confidence of the pipeline is
\* clamp(avg_ai * 100 * 0.7 + avg_fft * 0.3, 0, 99.9) for the means over the
\* appended FrameResults; it lies in [0, 99.9]; and raising the sum of either
\* signal, the other one and the count held fixed, never lowers it.
C7_FusionFormula ==
    \A j \in ScanIds :
        (HasReport(j) /\ count[j] >= 1) =>
            LET fd == analyzed_frames[j]
                n == Len(fd)
                sa == SumAi(fd)
                sf == SumFft(fd)
            IN  /\ confidence[j] = ClampedFusion(sa, sf, n)
                /\ confidence[j] >= 0
                /\ confidence[j] <= 999 * 100 * n
                /\ \A sa2 \in sa..(10 * n) :
                      Confidence(sa2, sf, n) >= confidence[j]
                /\ \A d \in {1, 2500, 5000, 10000} :
                      sf + d <= 10000 * n =>
                          Confidence(sa, sf + d, n) >= confidence[j]

C7_Witness ==
    \E j \in ScanIds :
        /\ HasReport(j)
        /\ count[j] = 2
        /\ FinalScore(fake_accumulated_score[j], fft_accumulated_score[j])
              > ConfidenceCap * count[j]
        /\ confidence[j] = ConfidenceCap * count[j]

\* C8: with at least one analyzed frame, the verdict is DEEPFAKE exactly when
\* the confidence is greater than 50, and REAL otherwise: a confidence of
\* exactly 50.0 is REAL.
C8_VerdictThreshold ==
    \A j \in ScanIds :
        (HasReport(j) /\ count[j] >= 1) =>
            /\ final_verdict[j] = "DEEPFAKE" <=> confidence[j] > 50 * 1000 * count[j]
            /\ final_verdict[j] = "REAL" <=> confidence[j] <= 50 * 1000 * count[j]
            /\ report[j].verdict = final_verdict[j]

C8_Witness ==
    \E j \in ScanIds :
        /\ HasReport(j)
        /\ count[j] >= 1
        /\ confidence[j] = 50 * 1000 * count[j]
        /\ final_verdict[j] = "REAL"

\* C9: inside the frame loop the sampling stride is at least 1, whatever frame
\* rate the container reports, so that current_frame % skip_rate never divides
\* by zero.
InFrameLoop(j) == pc[j] \in {"read", "sample", "locate", "write", "score"}

C9_StrideAtLeastOne ==
    \A j \in ScanIds : InFrameLoop(j) => skip_rate[j] >= 1

\* C10: when the frame loop calls crop_face_advanced, the call returns
\* found = true without raising, whatever the two detectors do on the frame.
C10_LocatorNeverRaises ==
    \A j \in ScanIds :
        pc[j] = "locate" =>
            \A det \in DetectorOutcomes, cas \in DetectorOutcomes :
                /\ ~crop_face_advanced(det, cas).raised
                /\ crop_face_advanced(det, cas).found

\* The steps of process_video_pipeline from its start to the end of the frame
\* loop or of the simulated analysis.
Analysing(j) ==
    pc[j] \in {"sleep", "mock", "open", "read", "sample", "locate", "write", "score"}

\* C11: while one scan's pipeline is between its start and the end of its
\* frame loop or simulated analysis, a get_results request for any scan can be
\* served and a queued pipeline of another scan can start, without waiting for
\* the first pipeline to finish.
C11_RunningJobDoesNotBlock ==
    \A j \in ScanIds :
        Analysing(j) =>
            /\ \A k \in ScanIds : ENABLED get_results(k)
            /\ \A k \in ScanIds \ {j} : pc[k] = "queued" => ENABLED Start(k)

\* C12: when the frame loop is about to read the next frame, no crop file of
\* an earlier frame exists in the scan's directory.
C12_NoCropOutlivesItsFrame ==
    \A j \in ScanIds : pc[j] = "read" => crops[j] = {}

\* The path a call of crop_face_advanced took.
PathOf(a) == crop_face_advanced(a.det, a.cas).strategy

\* The box a path settles on before it crops: the detection's box, or the
\* central half of the frame.
ChosenBox(a) ==
    CASE PathOf(a) = "mediapipe" -> a.bbox
      [] PathOf(a) = "haar" -> a.face
      [] OTHER -> [x |-> a.width \div 2 - (a.width \div 2) \div 2,
                   y |-> a.height \div 2 - (a.height \div 2) \div 2,
                   w |-> a.width \div 2,
                   h |-> a.height \div 2]

\* The box enlarged by 20% of its width to the left and right and by 20% of
\* its height above and below, clamped to the frame.
PaddedAndClamped(b, width, height) ==
    [x1 |-> Max(0, b.x - (20 * b.w) \div 100),
     x2 |-> Min(width, b.x + b.w + (20 * b.w) \div 100),
     y1 |-> Max(0, b.y - (20 * b.h) \div 100),
     y2 |-> Min(height, b.y + b.h + (20 * b.h) \div 100)]

InsideFrame(img, width, height) ==
    /\ 0 <= img.x1 /\ img.x1 <= img.x2 /\ img.x2 <= width
    /\ 0 <= img.y1 /\ img.y1 <= img.y2 /\ img.y2 <= height

\* C13: on each of its three paths crop_face_advanced returns the chosen box
\* enlarged by 20% of the box width left and right and 20% of the box height
\* above and below, clamped to the frame; the crop lies inside the frame.
C13_PaddedOnEveryPath ==
    (result # NoCall /\ result.fn = "crop_face_advanced" /\ result.found) =>
        /\ result.face_img = PaddedAndClamped(ChosenBox(args), args.width, args.height)
        /\ InsideFrame(result.face_img, args.width, args.height)

\* A classifier was set and gave an answer on the crop.
Answered(a) == (a.client \/ a.ai_pipe) /\ a.answer # NoAnswer

\* C14: whatever the classifier answers (label, confidence in [0, 1]) and
\* whichever of the remote client and the local model is set, or neither, or
\* the one asked raises, get_ai_prediction returns a value in [0, 1] without
\* raising; when a classifier answered, the value is the confidence if the
\* top label says fake or deepfake and 1 - confidence otherwise.
C14_ProbabilityOfFake ==
    (result # NoCall /\ result.fn = "get_ai_prediction") =>
        /\ ~result.raised
        /\ result.value \in 0..10
        /\ Answered(args) =>
              result.value = IF args.answer.label \in {"Fake", "Deepfake"}
                                THEN args.answer.score
                                ELSE 10 - args.answer.score

\* A top answer (real, 0.9) came back as 0.1.
C14_Witness ==
    /\ result # NoCall
    /\ result.fn = "get_ai_prediction"
    /\ Answered(args)
    /\ args.answer = [label |-> "Real", score |-> 9]
    /\ result.value = 1

\* C15: the fft_anomaly the pipeline gets for a crop lies in [0, 100], and it
\* is 0, with no exception raised, when the crop cannot be decoded or the
\* frequency analysis fails.
C15_AnomalyInRangeZeroOnFailure ==
    (cv2Present /\ result # NoCall /\ result.fn = "get_fft_score") =>
        /\ ~result.raised
        /\ result.value \in 0..10000
        /\ (~args.decodable \/ args.fails) => result.value = 0

\* The timestamps of consecutive entries of a frame list increase strictly.
TimestampsIncrease(frames) ==
    \A i \in 1..(Len(frames) - 1) :
        frames[i].timestamp < frames[i + 1].timestamp

\* C16: frame_data is in timestamp order: in the list a pipeline builds, in
\* the report it makes of it and in every stored report, the timestamps of
\* consecutive FrameResults are strictly increasing.
C16_FrameDataInTimestampOrder ==
    /\ \A j \in ScanIds : TimestampsIncrease(analyzed_frames[j])
    /\ \A r \in Reports : TimestampsIncrease(r.frame_data)

\* A stored report of a decoded video with two FrameResults, the second
\* stamped with a rounded quotient (frame 2 at 1.5 fps, 1.33 s).
C16_Witness ==
    \E r \in scans :
        /\ cv2Present
        /\ Len(r.frame_data) = 2
        /\ r.frame_data[2].timestamp = 133

\* What a caller learns from a returned value besides the pixels.
NoteOf(r) == [f \in DOMAIN r \ {"face_img"} |-> r[f]]

\* C17: the value crop_face_advanced returns on the center-crop fallback
\* carries a note that tells it from the value returned for any detection of
\* the mediapipe or the cascade detector.
C17_FallbackIsMarked ==
    (result # NoCall /\ result.fn = "crop_face_advanced"
        /\ PathOf(args) = "center") =>
        \A a \in CropArgs :
            PathOf(a) \in {"mediapipe", "haar"} =>
                NoteOf(CropResult(a)) # NoteOf(result)

\* C18: once the container is opened with a usable stride, no failure while a
\* sampled frame is handled (a detector error, a crop that cannot be written,
\* an extractor error) aborts the frame loop: the loop is left only when the
\* container is exhausted, never through its except clause.
C18_FrameFailureDoesNotAbort ==
    \A j \in ScanIds :
        (cv2Present /\ pc[j] = "verdict" /\ skip_rate[j] >= 1) =>
            "loop_error" \notin log[j]

\* The sampling interval N in seconds (skip_rate = int(fps) * 2, "every 2
\* seconds") and the stride round(fps * N) in frames, for a rate in halves.
SamplingInterval == 2
StrideFrames(f) == RoundDiv(f * SamplingInterval, 2)

\* C19: with a usable stride, the frame loop samples with the stride
\* round(fps * N): the frames it locates and scores are exactly the frames
\* whose index is a multiple of round(fps * N).
C19_SamplesEveryStride ==
    \A j \in ScanIds :
        (InFrameLoop(j) /\ skip_rate[j] >= 1) =>
            /\ skip_rate[j] = StrideFrames(fps[j])
            /\ pc[j] \in {"locate", "write", "score"} =>
                  current_frame[j] % StrideFrames(fps[j]) = 0

\* 60 times the score the rescaling from 100 (score 0) to 160 (score 100)
\* gives for a mean m, clamped to [0, 100]; m and the score in hundredths.
RescaledTimes60(m) == Min(Max((m - 10000) * 100, 0), 10000 * 60)

\* C20: for a crop that decodes and whose analysis does not fail, the
\* fft_anomaly get_fft_score returns is the mean m of the spectrum with a
\* centred square of half-side 30 zeroed, rescaled as
\* clamp((m - 100) * 100 / 60, 0, 100), to within one hundredth.
C20_Mask30Rescale100To160 ==
    (result # NoCall /\ result.fn = "get_fft_score" /\ args.libs
        /\ args.decodable /\ ~args.fails) =>
        LET m == MaskedMean(args.spectrum, args.side, WideMask)
            d == result.value * 60 - RescaledTimes60(m)
        IN  -60 < d /\ d < 60

\* C21: in every stored Report the verdict agrees with the confidence_score
\* it carries (the confidence rounded to 2 decimals): the verdict is DEEPFAKE
\* exactly when confidence_score > 50.
C21_VerdictAgreesWithStoredScore ==
    \A r \in scans :
        (r.verdict = "DEEPFAKE") <=> (r.confidence_score > 50 * 100)

\* The pipeline that holds the event loop during a step, 0 when none does.
Actor == IF running # 0 THEN running ELSE running'

\* A step that touches the working directory, the crops, the frame list or
\* the report of scan j.
Touches(j) ==
    \/ (j \in dirs') # (j \in dirs)
    \/ crops'[j] # crops[j]
    \/ analyzed_frames'[j] # analyzed_frames[j]
    \/ report'[j] # report[j]

\* C22: whatever the overlap of two pipelines with distinct scan ids, the
\* working directory, the crops, the frame list and the report of a scan are
\* touched only by steps of that scan's own pipeline; a report is made of the
\* frame list of its own pipeline, and only that report is stored.
C22_JobsAreIsolated ==
    [][/\ \A j \in ScanIds : Touches(j) => Actor = j
       /\ \A j \in ScanIds :
             (report'[j] # report[j] /\ report'[j] # NoReport) =>
                 /\ report'[j].scan_id = j
                 /\ report'[j].frame_data = analyzed_frames[j]
       /\ \A r \in scans' \ scans : r = report[Actor]]_vars

\* Two pipelines overlap: scan 1 has removed its own directory while scan 2,
\* suspended in insert_one, still has its directory and a crop in it.
C22_Witness ==
    /\ pc[1] = "final"
    /\ 1 \notin dirs
    /\ pc[2] = "insert"
    /\ 2 \in dirs
    /\ crops[2] # {}

\* C23: on a connected store delete_scan answers faithfully: 'deleted' when
\* the one document of the scan was removed, 404 when no document has the
\* scan_id, never 500 for a missing scan; and a delete that did not succeed
\* leaves the collection as it was.
C23_DeleteReportsFaithfully ==
    \A j \in ScanIds :
        (started /\ running = 0 /\ dbdb # "None") =>
            /\ Found(j) # {} =>
                  /\ DeleteScan(j, FALSE).status = "deleted"
                  /\ DeleteScan(j, FALSE).scans = scans \ Found(j)
            /\ Found(j) = {} => DeleteScan(j, FALSE).code = 404
            /\ \A raises \in BOOLEAN :
                  DeleteScan(j, raises).code # 200 =>
                      DeleteScan(j, raises).scans = scans

=============================================================================
